---- MODULE Spec2Model ----
(***************************************************************************)
(* The quiz-solving agent: the HTTP front door (main.py), the run          *)
(* supervisor and the reason/act graph (agent.py), the rate-limited        *)
(* gateway in front of the reasoning service (agent.py, RateLimitedLLM)    *)
(* and the five tool capabilities (tools/*.py).                            *)
(*                                                                         *)
(* Time is counted in thirds of a second, so that 60/9 s is the integer    *)
(* 20.  call_model is a synchronous node of a graph driven by ainvoke:     *)
(* every run executes it on a worker thread of its own, so the steps of    *)
(* RateLimitedLLM.invoke of different runs interleave.                     *)
(***************************************************************************)
EXTENDS Integers, Sequences, FiniteSets, TLC

\* ------------------------------------------------------------- constants

\* agent.py:112  self.min_interval = 60.0 / 9
min_interval == (60 * 3) \div 9

\* agent.py:258  "max_time": 180.0
max_time == 180 * 3

\* agent.py:265  config={"recursion_limit": 200}
recursion_limit == 200

\* agent.py:257  "quiz_count": 1
initial_quiz_count == 1

\* ---------------------------------------------------------------- bounds

\* The clock of the general specification advances MaxTicks times at most.
MaxTicks == 2

\* Reasoning calls issued, over all runs, in the general specification.
MaxLLMCalls == 3

\* Tool invocations requested, over all runs, in the general specification.
MaxToolCalls == 1

\* Tool invocations requested by one run in the tool specification.
MaxRunToolCalls == 3

\* Invocations of capabilities on their own in the capability specification.
MaxInvocations == 3

\* One advance of the clock: half the minimum interval.
TickStep == min_interval \div 2

\* time.time() when the process starts: long after the epoch, which is where
\* last_call_time = 0 lies, so the first call never waits.
ProcessStart == min_interval

\* The runs the front door can have in flight at once.
Runs == {"run1", "run2"}

Emails == {"e1", "e2"}
Secrets == {"s1", "s2"}
Urls == {"u1"}

None == "None"

\* ------------------------------------------------------------- messages

NoId == <<>>

HumanMessage(content) ==
    [type |-> "human", content |-> content, tool_calls |-> <<>>,
     name |-> None, tool_call_id |-> NoId]

SystemMessage(content) ==
    [type |-> "system", content |-> content, tool_calls |-> <<>>,
     name |-> None, tool_call_id |-> NoId]

AIMessage(content, tool_calls) ==
    [type |-> "ai", content |-> content, tool_calls |-> tool_calls,
     name |-> None, tool_call_id |-> NoId]

ToolMessage(content, name, id) ==
    [type |-> "tool", content |-> content, tool_calls |-> <<>>,
     name |-> name, tool_call_id |-> id]

\* agent.py:33-99
SYSTEM_PROMPT == [kind |-> "system_prompt"]

\* The texts the reasoning service answers with, and their lower-case forms
\* (str.lower of agent.py:161).
AITexts == {"Quiz Complete!", "FINISHED", "There is no new URL.",
            "Let me look at the page."}

lower(text) ==
    CASE text = "Quiz Complete!" -> "quiz complete!"
      [] text = "FINISHED" -> "finished"
      [] text = "There is no new URL." -> "there is no new url."
      [] OTHER -> "let me look at the page."

\* p in content, for the lower-case texts above.
contains(content, p) ==
    \/ p = "quiz complete" /\ content = "quiz complete!"
    \/ p = "no new url" /\ content = "there is no new url."
    \/ p = "finished" /\ content = "finished"

\* A messages channel without a reducer: an update overwrites the value.
add_messages_overwrite(left, right) == right

\* langgraph add_messages, the reducer of AgentState.messages: the messages
\* of an update are appended (their ids are fresh, so none replaces another).
add_messages(left, right) == left \o right

\* ---------------------------------------------------------------- tools

ToolNames == {"get_rendered_html", "download_file", "run_code",
              "post_request", "add_dependencies"}

\* What the operation under a capability does in one invocation.
Faults == {"none", "network_error", "timeout", "bad_status",
           "serialization_error"}

Returned(ok, next_url, text) ==
    [raised |-> FALSE, ok |-> ok, next_url |-> next_url, text |-> text]

Raised(exc) ==
    [raised |-> TRUE, ok |-> FALSE, next_url |-> FALSE, text |-> exc]

\* web_scraper.py:25-67: everything happens inside try/except Exception.
get_rendered_html(fault) ==
    IF fault = "none" THEN Returned(TRUE, FALSE, "html")
    ELSE Returned(FALSE, FALSE, "Error: Error scraping")

\* download_file.py:27-79: a status other than 200 is an error string, any
\* exception is caught by except Exception.
download_file(fault) ==
    CASE fault = "none" -> Returned(TRUE, FALSE, "LLMFiles/name")
      [] fault = "bad_status" -> Returned(FALSE, FALSE, "Error: Failed to download: HTTP status")
      [] OTHER -> Returned(FALSE, FALSE, "Error: Error downloading file")

\* The result run_code returns: the fields of its JSON object, stdout,
\* stderr and exit_code (code_generate_and_run.py:62-66, 86-90, 103-107).
ExecutionResult(text, stdout, stderr, exit_code) ==
    [raised |-> FALSE, ok |-> exit_code = 0, next_url |-> FALSE, text |-> text,
     stdout |-> stdout, stderr |-> stderr, exit_code |-> exit_code]

\* run_code without the outer handler of lines 99-107: the error of the
\* timeout handler leaves the capability.
run_code_timeout_unhandled(fault) ==
    CASE fault = "none" ->
             ExecutionResult("exit_code 0", "output", "", 0)
      [] fault = "bad_status" ->
             ExecutionResult("exit_code nonzero", "", "Traceback", 1)
      [] fault = "timeout" ->
             Raised("UnboundLocalError: local variable 'json'")
      [] OTHER ->
             ExecutionResult("exit_code -1: Error executing code", "",
                             "Error executing code", -1)

\* code_generate_and_run.py:36-107.  On a timeout the handler of line 81
\* kills the process and then reads json, a local name of the function bound
\* only by the import of line 78, which the timeout skipped: the
\* UnboundLocalError passes the finally of line 92 and is caught by the
\* outer except Exception (line 99), which returns its own result.
run_code(fault) ==
    CASE fault = "none" ->
             ExecutionResult("exit_code 0", "output", "", 0)
      [] fault = "bad_status" ->
             ExecutionResult("exit_code nonzero", "", "Traceback", 1)
      [] fault = "timeout" ->
             ExecutionResult("exit_code -1: Error executing code: local variable json",
                             "", "Error executing code: local variable 'json'", -1)
      [] OTHER ->
             ExecutionResult("exit_code -1: Error executing code", "",
                             "Error executing code", -1)

\* send_request.py:40-104.  The module imports aiohttp and json only (lines
\* 4-6): when the request raises, matching the exception against
\* "except asyncio.TimeoutError" (line 90) evaluates the name asyncio and
\* raises NameError out of the capability.  A payload that cannot be
\* serialized is caught by the inner handler (lines 42-50) and returned.
post_request(fault, next_url) ==
    CASE fault = "none" -> Returned(TRUE, next_url, "status_code 200")
      [] fault = "bad_status" -> Returned(FALSE, FALSE, "status_code 4xx")
      [] fault = "serialization_error" -> Returned(FALSE, FALSE, "status_code -1: Failed to serialize payload")
      [] OTHER -> Raised("NameError: name 'asyncio' is not defined")

\* add_dependencies.py:28-66
add_dependencies(fault) ==
    CASE fault = "none" -> Returned(TRUE, FALSE, "Successfully installed")
      [] fault = "bad_status" -> Returned(FALSE, FALSE, "Failed to install packages")
      [] fault = "timeout" -> Returned(FALSE, FALSE, "Package installation timed out after 2 minutes")
      [] OTHER -> Returned(FALSE, FALSE, "Error installing packages")

\* agent.py:139-145, the registry: the capability a tool name resolves to.
tools(name, fault, next_url) ==
    CASE name = "get_rendered_html" -> get_rendered_html(fault)
      [] name = "download_file" -> download_file(fault)
      [] name = "run_code" -> run_code(fault)
      [] name = "post_request" -> post_request(fault, next_url)
      [] OTHER -> add_dependencies(fault)

\* --------------------------------------------------------- working area

\* A path is the sequence of its components, the text between the "/": an
\* absolute path starts with an empty component, a path that ends in "/"
\* ends with one, and the empty string is the one empty component.
\* os.path.basename: what follows the last "/".
basename(path) == path[Len(path)]

\* os.path.join of a directory and a path: an absolute path replaces the
\* directory.
join(dir, path) ==
    IF Len(path) > 1 /\ path[1] = "" THEN path ELSE <<dir>> \o path

\* open(filepath, 'wb') raises IsADirectoryError for a path that names a
\* directory.
is_directory(path) == basename(path) \in {"", ".", ".."}

\* The text of a path.
path_text(path) ==
    LET f[i \in 1..Len(path)] ==
            IF i = 1 THEN path[1] ELSE f[i - 1] \o "/" \o path[i]
    IN  f[Len(path)]

\* What the tools leave outside the process: the files written, with the
\* body they hold and whether it is whole; the temporary code files; the
\* subprocesses still running.
NoWorld == [files |-> {}, temp_files |-> {}, subprocesses |-> {}]

\* The URL of the invocations whose arguments the runs do not vary.
DefaultUrl == [id |-> "u1", path |-> <<"", "name">>]

\* filename = None, the argument left out: a path without components.
NoFilename == <<>>

\* download_file keeping the directories of the filename.
target_name_as_given(given) == given

\* download_file.py:43
target_name(given) == <<basename(given)>>

\* download_file opening the file for every response.
writes_on_any_response(fault) == fault \in {"none", "timeout", "bad_status"}

\* download_file.py:51-63: the file is opened for a response of status 200
\* only; the faults under which line 63 is reached are none, and a timeout
\* that expires while the body is read.
writes_on(fault) == fault \in {"none", "timeout"}

\* download_file.py:27-79 with its arguments and its effect on the working
\* area w.  Faults: network_error is session.get raising before there is a
\* response, bad_status a response other than 200, timeout the total
\* timeout of 60 s expiring while the body is read.
download_file_call(w, url, filename, fault) ==
    LET from_url == basename(url.path)                        \* lines 34-35
        given == IF filename = NoFilename                     \* line 32
                 THEN <<IF from_url = "" THEN "downloaded_file"
                        ELSE from_url>>                        \* lines 38-40
                 ELSE filename
        filepath == join("LLMFiles", target_name(given))      \* lines 43-46
        others == {f \in w.files : f.path # filepath}
        written(whole) ==
            [w EXCEPT !.files =
                others \cup {[path |-> filepath, from |-> url.id, whole |-> whole]}]
    IN  IF ~writes_on(fault)
        THEN [result |-> download_file(fault), world |-> w, filepath |-> filepath]
        ELSE IF is_directory(filepath)
        THEN [result |-> Returned(FALSE, FALSE, "Error: Error downloading file"),
              world |-> w, filepath |-> filepath]
        ELSE IF fault = "none"
        THEN [result |-> Returned(TRUE, FALSE, path_text(filepath)),
              world |-> written(TRUE), filepath |-> filepath]
        ELSE [result |-> download_file(fault),
              world |-> written(FALSE), filepath |-> filepath]

\* code_generate_and_run.py:36-107 with its effect on the working area w:
\* the temporary file (lines 38-40), the subprocess (lines 44-49), its end
\* or its kill on the timeout (lines 82-83), the unlink of the finally
\* clause (lines 92-97).  Under the other faults the subprocess cannot be
\* started.
run_code_call(w, fault) ==
    LET created == [w EXCEPT !.temp_files = @ \cup {"tmp.py"}]
        spawned == IF fault \in {"none", "bad_status", "timeout"}
                   THEN [created EXCEPT !.subprocesses = @ \cup {"python"}]
                   ELSE created
        ended == IF fault \in {"none", "bad_status"}
                 THEN [spawned EXCEPT !.subprocesses = @ \ {"python"}]
                 ELSE spawned
        killed == IF fault = "timeout"
                  THEN [ended EXCEPT !.subprocesses = @ \ {"python"}]
                  ELSE ended
        unlinked == [killed EXCEPT !.temp_files = @ \ {"tmp.py"}]
    IN  [result |-> run_code(fault), world |-> unlinked]

\* add_dependencies.py:28-66 with its effect on the working area w: without
\* packages nothing is started (lines 28-29); the subprocess (lines 38-42)
\* ends by itself, or wait_for gives up on it after 120 s and the handler of
\* lines 58-61 returns, leaving it running.
add_dependencies_call(w, packages, fault) ==
    LET spawned == IF fault \in {"none", "bad_status", "timeout"}
                   THEN [w EXCEPT !.subprocesses = @ \cup {"pip"}]
                   ELSE w
        ended == IF fault \in {"none", "bad_status"}
                 THEN [spawned EXCEPT !.subprocesses = @ \ {"pip"}]
                 ELSE spawned
    IN  IF packages = <<>>
        THEN [result |-> Returned(FALSE, FALSE, "Error: No packages specified"),
              world |-> w]
        ELSE [result |-> add_dependencies(fault), world |-> ended]

\* The working area after one invocation of a tool by a run.
tools_world(w, name, fault) ==
    CASE name = "download_file" -> download_file_call(w, DefaultUrl, NoFilename, fault).world
      [] name = "run_code" -> run_code_call(w, fault).world
      [] name = "add_dependencies" ->
             add_dependencies_call(w, <<"pandas">>, fault).world
      [] OTHER -> w

\* ---------------------------------------------------------------- state

VARIABLES
    env,             \* os.getenv: SECRET and EMAIL, and the installed ToolNode's
                     \* policy for an exception raised by a tool
    http,            \* the front door's latest exchange: request body, status
    pc,              \* where each run is
    args,            \* the arguments of the scheduled run_agent_background task
    state,           \* AgentState of each run
    step,            \* supersteps of the graph each run has started
    request,         \* the conversation each run last handed to the gateway
    wake_at,         \* when the time.sleep of a run inside invoke() ends
    acting,          \* the ToolNode's invocations in flight in each run
    exc,             \* the exception propagating out of a run's graph
    report,          \* what run_agent returned
    last_call_time,  \* RateLimitedLLM.last_call_time, shared by all runs
    now,             \* time.time()
    callTimes,       \* history: the reasoning calls issued, with their times
    world,           \* what the tools have left outside the process
    invocation       \* the latest invocation of a capability on its own

vars == <<env, http, pc, args, state, step, request, wake_at, acting, exc, report,
          last_call_time, now, callTimes, world, invocation>>

NoArgs == [none |-> TRUE]
NoState == [none |-> TRUE]
NoReport == [none |-> TRUE]
NoHttp == [none |-> TRUE]
NoInvocation == [none |-> TRUE]
NoActing == [calls |-> <<>>, results |-> <<>>, done |-> <<>>]
Pending == [pending |-> TRUE]

\* ----------------------------------------------------------- front door

\* The bodies POST /solve is sent: text that is no JSON, JSON that is no
\* object, an object without the url field, and submissions.
NotSubmissions ==
    {[json |-> k] : k \in {"invalid", "array", "string", "number", "null",
                           "object_without_url"}}

Submissions ==
    {[json |-> "object", email |-> e, secret |-> s, url |-> u] :
        e \in Emails, s \in Secrets, u \in Urls}

Bodies == NotSubmissions \cup Submissions

\* solve_quiz_status without the comparison of lines 111-113.
solve_quiz_status_any_secret(body, expected_secret) ==
    CASE body.json = "invalid" -> 400
      [] body.json \in {"array", "string", "number", "null"} -> 500
      [] body.json = "object_without_url" -> 400
      [] expected_secret \in {None, ""} -> 500
      [] OTHER -> 200

\* main.py:90-141, the status solve_quiz answers with; 200 is the only one
\* with which a run is scheduled.
solve_quiz_status(body, expected_secret) ==
    CASE body.json = "invalid" -> 400                   \* lines 92-96
      [] body.json \in {"array", "string", "number", "null"} -> 500
                     \* QuizRequest(**body) raises TypeError, not
                     \* ValidationError: lines 137-141
      [] body.json = "object_without_url" -> 400         \* lines 99-103
      [] expected_secret \in {None, ""} -> 500           \* lines 106-109
      [] body.secret # expected_secret -> 403            \* lines 111-113
      [] OTHER -> 200                                    \* line 133

\* solve_quiz answering by the fate of earlier runs: a submission is refused
\* once a run has failed.
solve_quiz_by_run_outcome(body, r) ==
    LET failed == \E q \in Runs : pc[q] \in {"raised", "returned"} /\ exc[q] # None
        status == IF failed THEN 500 ELSE solve_quiz_status(body, env.SECRET)
    IN
    /\ http' = [body |-> body, status |-> status]
    /\ IF status = 200
       THEN /\ pc[r] = "idle"
            /\ pc' = [pc EXCEPT ![r] = "scheduled"]
            /\ args' = [args EXCEPT ![r] =
                   [email |-> body.email, secret |-> body.secret, url |-> body.url]]
       ELSE UNCHANGED <<pc, args>>
    /\ UNCHANGED <<world, invocation, env, state, step, request, wake_at, acting, exc, report,
                   last_call_time, now, callTimes>>

\* main.py:83-141.  An accepted submission schedules run_agent_background
\* (asyncio.create_task, lines 127-131) on a free run and answers 200.
solve_quiz(body, r) ==
    LET status == solve_quiz_status(body, env.SECRET) IN
    /\ http' = [body |-> body, status |-> status]
    /\ IF status = 200
       THEN /\ pc[r] = "idle"
            /\ pc' = [pc EXCEPT ![r] = "scheduled"]
            /\ args' = [args EXCEPT ![r] =
                   [email |-> body.email, secret |-> body.secret, url |-> body.url]]
       ELSE UNCHANGED <<pc, args>>
    /\ UNCHANGED <<world, invocation, env, state, step, request, wake_at, acting, exc, report,
                   last_call_time, now, callTimes>>

\* ------------------------------------------------------- run supervisor

\* agent.py:249-259
initial_state(email, secret, initial_url, time) ==
    [messages |-> <<HumanMessage([kind |-> "solve", url |-> initial_url])>>,
     email |-> email,
     secret |-> secret,
     current_url |-> initial_url,
     start_time |-> time,
     quiz_count |-> initial_quiz_count,
     max_time |-> max_time]

\* main.py:143-147 and agent.py:230-259: the scheduled task starts run_agent,
\* which builds the initial state and enters the graph at "agent".
run_agent(r) ==
    /\ pc[r] = "scheduled"
    /\ state' = [state EXCEPT ![r] =
           initial_state(args[r].email, args[r].secret, args[r].url, now)]
    /\ pc' = [pc EXCEPT ![r] = "agent"]
    /\ UNCHANGED <<world, invocation, env, http, args, step, request, wake_at, acting, exc,
                   report, last_call_time, now, callTimes>>

\* A graph run without a recursion limit.
out_of_steps_never(n) == FALSE

\* agent.py:263-266: graph.ainvoke under recursion_limit.  The graph starts a
\* node only while fewer than recursion_limit supersteps have been started,
\* and raises GraphRecursionError otherwise.
out_of_steps(n) == n >= recursion_limit

\* A graph that, out of steps, stops as if the reasoner had finished.
graph_recursion_error_ends(r) ==
    /\ pc[r] \in {"agent", "tools"}
    /\ out_of_steps(step[r])
    /\ pc' = [pc EXCEPT ![r] = "end"]
    /\ UNCHANGED <<world, invocation, env, http, args, state, step, request, wake_at, acting,
                   exc, report, last_call_time, now, callTimes>>

graph_recursion_error(r) ==
    /\ pc[r] \in {"agent", "tools"}
    /\ out_of_steps(step[r])
    /\ pc' = [pc EXCEPT ![r] = "raised"]
    /\ exc' = [exc EXCEPT ![r] = "GraphRecursionError"]
    /\ UNCHANGED <<world, invocation, env, http, args, state, step, request, wake_at, acting,
                   report, last_call_time, now, callTimes>>

\* agent.py:268-279
run_agent_returns(r) ==
    /\ pc[r] = "end"
    /\ report' = [report EXCEPT ![r] =
           [success |-> TRUE,
            elapsed_time |-> now - state[r].start_time,
            quiz_count |-> state[r].quiz_count]]
    /\ pc' = [pc EXCEPT ![r] = "returned"]
    /\ UNCHANGED <<world, invocation, env, http, args, state, step, request, wake_at, acting,
                   exc, last_call_time, now, callTimes>>

\* An exception of one run that ends every run in flight.
run_agent_except_ends_all(r) ==
    /\ pc[r] = "raised"
    /\ report' = [q \in Runs |->
           IF pc[q] \in {"idle", "scheduled", "returned"} THEN report[q]
           ELSE [success |-> FALSE,
                 error |-> exc[r],
                 elapsed_time |-> now - state[q].start_time]]
    /\ pc' = [q \in Runs |->
           IF pc[q] \in {"idle", "scheduled", "returned"} THEN pc[q]
           ELSE "returned"]
    /\ UNCHANGED <<world, invocation, env, http, args, state, step, request, wake_at, acting,
                   exc, last_call_time, now, callTimes>>

\* agent.py:281-296
run_agent_except(r) ==
    /\ pc[r] = "raised"
    /\ report' = [report EXCEPT ![r] =
           [success |-> FALSE,
            error |-> exc[r],
            elapsed_time |-> now - state[r].start_time]]
    /\ pc' = [pc EXCEPT ![r] = "returned"]
    /\ UNCHANGED <<world, invocation, env, http, args, state, step, request, wake_at, acting,
                   exc, last_call_time, now, callTimes>>

\* ------------------------------------------------------- reasoning step

\* agent.py:176-189, the context message of one Reasoning step.
context_msg(st, time) ==
    LET elapsed_time == time - st.start_time
        time_remaining == st.max_time - elapsed_time
    IN  HumanMessage([kind |-> "context",
                      email |-> st.email,
                      secret |-> st.secret,
                      current_url |-> st.current_url,
                      quiz_count |-> st.quiz_count,
                      elapsed_time |-> elapsed_time,
                      time_remaining |-> time_remaining])

\* model_input without the injection of the system message.
model_input_as_stored(st, time) ==
    st.messages \o <<context_msg(st, time)>>

\* agent.py:170-191, the conversation handed to the gateway: the system
\* message in front unless one is present, then the run's messages, then
\* the context message.
model_input(st, time) ==
    LET messages == st.messages
        with_system ==
            IF \E i \in 1..Len(messages) : messages[i].type = "system"
            THEN messages
            ELSE <<SystemMessage(SYSTEM_PROMPT)>> \o messages
    IN  with_system \o <<context_msg(st, time)>>

\* call_model keeping what it builds: the system message and the context
\* message become part of the run's messages.
call_model_appends_context(r) ==
    /\ pc[r] = "agent"
    /\ ~out_of_steps(step[r])
    /\ step' = [step EXCEPT ![r] = @ + 1]
    /\ request' = [request EXCEPT ![r] = model_input(state[r], now)]
    /\ state' = [state EXCEPT ![r].messages = model_input(state[r], now)]
    /\ pc' = [pc EXCEPT ![r] = "invoke"]
    /\ UNCHANGED <<world, invocation, env, http, args, wake_at, acting, exc, report,
                   last_call_time, now, callTimes>>

\* agent.py:168-193: the "agent" node starts and builds the conversation.
call_model(r) ==
    /\ pc[r] = "agent"
    /\ ~out_of_steps(step[r])
    /\ step' = [step EXCEPT ![r] = @ + 1]
    /\ request' = [request EXCEPT ![r] = model_input(state[r], now)]
    /\ pc' = [pc EXCEPT ![r] = "invoke"]
    /\ UNCHANGED <<world, invocation, env, http, args, state, wake_at, acting, exc, report,
                   last_call_time, now, callTimes>>

\* wait_time with the sign of the elapsed time wrong.
wait_time_sign_error(current_time, last) ==
    LET time_since_last == current_time - last IN
    IF time_since_last < min_interval
    THEN min_interval + time_since_last
    ELSE 0

\* agent.py:117-124: the time since the last call, and the sleep it asks for.
wait_time(current_time, last) ==
    LET time_since_last == current_time - last IN
    IF time_since_last < min_interval
    THEN min_interval - time_since_last
    ELSE 0

invoke_enter(r) ==
    /\ pc[r] = "invoke"
    /\ LET wait == wait_time(now, last_call_time) IN
       IF wait > 0
       THEN /\ wake_at' = [wake_at EXCEPT ![r] = now + wait]
            /\ pc' = [pc EXCEPT ![r] = "sleep"]
       ELSE /\ pc' = [pc EXCEPT ![r] = "call"]
            /\ UNCHANGED wake_at
    /\ UNCHANGED <<world, invocation, env, http, args, state, step, request, acting, exc,
                   report, last_call_time, now, callTimes>>

\* agent.py:124: time.sleep(wait_time) returns once the time has passed.
invoke_wake(r) ==
    /\ pc[r] = "sleep"
    /\ now >= wake_at[r]
    /\ pc' = [pc EXCEPT ![r] = "call"]
    /\ UNCHANGED <<world, invocation, env, http, args, state, step, request, wake_at, acting,
                   exc, report, last_call_time, now, callTimes>>

\* invoke that issues the call without recording a timestamp.
invoke_call_unrecorded(r) ==
    /\ pc[r] = "call"
    /\ callTimes' = Append(callTimes, [run |-> r, at |-> now])
    /\ pc' = [pc EXCEPT ![r] = "await"]
    /\ UNCHANGED <<world, invocation, env, http, args, state, step, request, wake_at, acting,
                   exc, report, last_call_time, now>>

\* agent.py:127-128: the timestamp is recorded, then the call is issued.
invoke_call(r) ==
    /\ pc[r] = "call"
    /\ last_call_time' = now
    /\ callTimes' = Append(callTimes, [run |-> r, at |-> now])
    /\ pc' = [pc EXCEPT ![r] = "await"]
    /\ UNCHANGED <<world, invocation, env, http, args, state, step, request, wake_at, acting,
                   exc, report, now>>

\* should_continue doing what its last comment says ("Default: continue"):
\* without tool calls and without a completion phrase the loop goes on.
should_continue_default_continue(st) ==
    LET messages == st.messages
        last_message == messages[Len(messages)]
    IN  IF last_message.tool_calls # <<>> THEN "tools"
        ELSE LET content == lower(last_message.content.text) IN
             IF \/ contains(content, "quiz complete")
                \/ contains(content, "no new url")
                \/ contains(content, "finished")
             THEN "end"
             ELSE "tools"

\* should_continue with a hard deadline: the run ends once max_time has
\* passed.
should_continue_hard_deadline(st) ==
    LET messages == st.messages
        last_message == messages[Len(messages)]
    IN  IF now - st.start_time >= st.max_time THEN "end"
        ELSE IF last_message.tool_calls # <<>> THEN "tools"
        ELSE "end"

\* should_continue looking for the completion signal first.
should_continue_completion_first(st) ==
    LET messages == st.messages
        last_message == messages[Len(messages)]
        content == lower(last_message.content.text)
    IN  IF \/ contains(content, "quiz complete")
           \/ contains(content, "no new url")
           \/ contains(content, "finished")
        THEN "end"
        ELSE IF last_message.tool_calls # <<>> THEN "tools"
        ELSE "end"

\* agent.py:150-166
should_continue(st) ==
    LET messages == st.messages
        last_message == messages[Len(messages)]
    IN  IF last_message.tool_calls # <<>> THEN "tools"
        ELSE LET content == lower(last_message.content.text) IN
             IF \/ contains(content, "quiz complete")
                \/ contains(content, "no new url")
                \/ contains(content, "finished")
             THEN "end"
             ELSE "end"

\* The tool calls of a response that is the n-th message of its run: each
\* requested name with an id no other call has.
tool_calls_of(names, n) ==
    [k \in 1..Len(names) |-> [name |-> names[k], id |-> <<n, k>>]]

\* agent.py:195-202 and 215-222: the service answers, call_model returns the
\* response as the update of messages, and the conditional edge routes.
llm_returns(r, text, names) ==
    /\ pc[r] = "await"
    /\ LET response == AIMessage([kind |-> "text", text |-> text],
                                 tool_calls_of(names, Len(state[r].messages) + 1))
           new_state == [state[r] EXCEPT
                           !.messages = add_messages(@, <<response>>)]
       IN  /\ state' = [state EXCEPT ![r] = new_state]
           /\ pc' = [pc EXCEPT ![r] = should_continue(new_state)]
    /\ UNCHANGED <<world, invocation, env, http, args, step, request, wake_at, acting, exc,
                   report, last_call_time, now, callTimes>>

\* A gateway that answers an error of the service call by calling again.
llm_raises_and_retries(r) ==
    /\ pc[r] = "await"
    /\ pc' = [pc EXCEPT ![r] = "call"]
    /\ exc' = [exc EXCEPT ![r] = "reasoning service error"]
    /\ UNCHANGED <<world, invocation, env, http, args, state, step, request, wake_at, acting,
                   report, last_call_time, now, callTimes>>

\* agent.py:128, 195: an error of the service call propagates out of invoke,
\* out of call_model and out of the graph.
llm_raises(r) ==
    /\ pc[r] = "await"
    /\ pc' = [pc EXCEPT ![r] = "raised"]
    /\ exc' = [exc EXCEPT ![r] = "reasoning service error"]
    /\ UNCHANGED <<world, invocation, env, http, args, state, step, request, wake_at, acting,
                   report, last_call_time, now, callTimes>>

\* ---------------------------------------------------------- acting step

\* agent.py:209, ToolNode(tools): the "tools" node starts one invocation per
\* tool call of the latest reasoner message; they run concurrently.
tool_node(r) ==
    /\ pc[r] = "tools"
    /\ ~out_of_steps(step[r])
    /\ step' = [step EXCEPT ![r] = @ + 1]
    /\ LET messages == state[r].messages
           calls == messages[Len(messages)].tool_calls
       IN  acting' = [acting EXCEPT ![r] =
               [calls |-> calls,
                results |-> [i \in 1..Len(calls) |-> Pending],
                done |-> <<>>]]
    /\ pc' = [pc EXCEPT ![r] = "acting"]
    /\ UNCHANGED <<world, invocation, env, http, args, state, request, wake_at, exc, report,
                   last_call_time, now, callTimes>>

\* What ToolNode makes of an exception it handles: an error result.
handled_error(outcome) ==
    [raised |-> FALSE, ok |-> FALSE, next_url |-> FALSE,
     text |-> "Error: " \o outcome.text]

\* One invocation ends: the capability returns its result, or it raises and
\* ToolNode either turns the exception into an error result or lets it
\* propagate out of the graph, by the handle_tool_errors of the installed
\* langgraph.
tool_finishes(r, i, fault, next_url) ==
    /\ pc[r] = "acting"
    /\ i \in 1..Len(acting[r].calls)
    /\ acting[r].results[i] = Pending
    /\ LET outcome == tools(acting[r].calls[i].name, fault, next_url) IN
       IF outcome.raised /\ ~env.handle_tool_errors
       THEN /\ pc' = [pc EXCEPT ![r] = "raised"]
            /\ exc' = [exc EXCEPT ![r] = outcome.text]
            /\ acting' = [acting EXCEPT ![r] = NoActing]
       ELSE /\ acting' = [acting EXCEPT ![r] =
                   [@ EXCEPT !.results[i] =
                                 IF outcome.raised THEN handled_error(outcome)
                                 ELSE outcome,
                             !.done = Append(@, i)]]
            /\ UNCHANGED <<pc, exc>>
    /\ world' = tools_world(world, acting[r].calls[i].name, fault)
    /\ UNCHANGED <<invocation, env, http, args, state, step, request, wake_at, report,
                   last_call_time, now, callTimes>>

\* A ToolNode that emits the tool messages in the order the invocations
\* ended.
tool_node_outputs_as_completed(calls, results, done) ==
    [k \in 1..Len(done) |->
        ToolMessage(results[done[k]], calls[done[k]].name, calls[done[k]].id)]

\* ToolNode's update: one tool message per tool call, in the order of the
\* calls (asyncio.gather keeps the order of its arguments).
tool_node_outputs(calls, results, done) ==
    [i \in 1..Len(calls) |->
        ToolMessage(results[i], calls[i].name, calls[i].id)]

\* A ToolNode that returns once the first of its invocations has ended.
tool_node_return_first_ended(r) ==
    /\ pc[r] = "acting"
    /\ Len(acting[r].done) >= 1
    /\ state' = [state EXCEPT ![r].messages =
           add_messages(@, tool_node_outputs(acting[r].calls,
                                             acting[r].results,
                                             acting[r].done))]
    /\ pc' = [pc EXCEPT ![r] = "agent"]
    /\ UNCHANGED <<world, invocation, env, http, args, step, request, wake_at, acting, exc,
                   report, last_call_time, now, callTimes>>

\* A ToolNode that also follows the chain: a submit result with a next URL
\* advances quiz_count and current_url.
tool_node_return_follows_chain(r) ==
    /\ pc[r] = "acting"
    /\ Len(acting[r].done) = Len(acting[r].calls)
    /\ LET outputs == tool_node_outputs(acting[r].calls, acting[r].results,
                                        acting[r].done)
           chained == Cardinality({i \in 1..Len(outputs) :
                          /\ outputs[i].name = "post_request"
                          /\ outputs[i].content.next_url})
       IN  state' = [state EXCEPT
               ![r].messages = add_messages(@, outputs),
               ![r].quiz_count = @ + chained,
               ![r].current_url = IF chained > 0 THEN "next" ELSE @]
    /\ pc' = [pc EXCEPT ![r] = "agent"]
    /\ UNCHANGED <<world, invocation, env, http, args, step, request, wake_at, acting, exc,
                   report, last_call_time, now, callTimes>>

\* agent.py:225: all invocations have ended, their messages are added and
\* the edge leads back to "agent".
tool_node_return(r) ==
    /\ pc[r] = "acting"
    /\ Len(acting[r].done) = Len(acting[r].calls)
    /\ state' = [state EXCEPT ![r].messages =
           add_messages(@, tool_node_outputs(acting[r].calls,
                                             acting[r].results,
                                             acting[r].done))]
    /\ pc' = [pc EXCEPT ![r] = "agent"]
    /\ UNCHANGED <<world, invocation, env, http, args, step, request, wake_at, acting, exc,
                   report, last_call_time, now, callTimes>>

\* ---------------------------------------------------------- capabilities

\* The invocations made of capabilities on their own.
InvocationsMade == IF invocation = NoInvocation THEN 0 ELSE invocation.n

\* download_file.py:9-79, one invocation with its arguments.
invoke_download_file(url, filename, fault) ==
    LET call == download_file_call(world, url, filename, fault) IN
    /\ invocation' = [n |-> InvocationsMade + 1,
                      tool |-> "download_file",
                      url |-> url, filename |-> filename, fault |-> fault,
                      result |-> call.result, filepath |-> call.filepath,
                      before |-> world]
    /\ world' = call.world
    /\ UNCHANGED <<env, http, pc, args, state, step, request, wake_at, acting,
                   exc, report, last_call_time, now, callTimes>>

\* code_generate_and_run.py:9-107, one invocation.
invoke_run_code(fault) ==
    LET call == run_code_call(world, fault) IN
    /\ invocation' = [n |-> InvocationsMade + 1,
                      tool |-> "run_code", fault |-> fault,
                      result |-> call.result, before |-> world]
    /\ world' = call.world
    /\ UNCHANGED <<env, http, pc, args, state, step, request, wake_at, acting,
                   exc, report, last_call_time, now, callTimes>>

\* add_dependencies.py:8-66, one invocation with its argument.
invoke_add_dependencies(packages, fault) ==
    LET call == add_dependencies_call(world, packages, fault) IN
    /\ invocation' = [n |-> InvocationsMade + 1,
                      tool |-> "add_dependencies",
                      packages |-> packages, fault |-> fault,
                      result |-> call.result, before |-> world]
    /\ world' = call.world
    /\ UNCHANGED <<env, http, pc, args, state, step, request, wake_at, acting,
                   exc, report, last_call_time, now, callTimes>>

\* ---------------------------------------------------------------- clock

Tick ==
    /\ now' = now + TickStep
    /\ UNCHANGED <<world, invocation, env, http, pc, args, state, step, request, wake_at,
                   acting, exc, report, last_call_time, callTimes>>

\* Time passing while some run sleeps in the gateway, up to its waking.
TickWhileAsleep ==
    /\ \E r \in Runs : pc[r] = "sleep" /\ now < wake_at[r]
    /\ Tick

\* ------------------------------------------------------- specifications

\* The configurations of the process: SECRET unset, empty or set, EMAIL
\* unset or set; ToolNode handling tool exceptions or not.
Envs ==
    [SECRET : {None, "", "s1"}, EMAIL : {None, "e1"},
     handle_tool_errors : BOOLEAN]

\* The configurations of a deployed server: SECRET and EMAIL are set.
DeployedEnvs == {e \in Envs : e.SECRET = "s1" /\ e.EMAIL = "e1"}

\* The state after the server has started under one of the configurations
\* E: no request handled, no run, the gateway never called (agent.py:111).
InitIn(E) ==
    /\ env \in E
    /\ http = NoHttp
    /\ pc = [r \in Runs |-> "idle"]
    /\ args = [r \in Runs |-> NoArgs]
    /\ state = [r \in Runs |-> NoState]
    /\ step = [r \in Runs |-> 0]
    /\ request = [r \in Runs |-> <<>>]
    /\ wake_at = [r \in Runs |-> 0]
    /\ acting = [r \in Runs |-> NoActing]
    /\ exc = [r \in Runs |-> None]
    /\ report = [r \in Runs |-> NoReport]
    /\ last_call_time = 0
    /\ now = ProcessStart
    /\ callTimes = <<>>
    /\ world = NoWorld
    /\ invocation = NoInvocation

\* Tool calls requested by the reasoner messages of run r.
ToolCallsRequested(r) ==
    IF state[r] = NoState THEN 0
    ELSE LET messages == state[r].messages
             n[i \in 0..Len(messages)] ==
                 IF i = 0 THEN 0 ELSE n[i - 1] + Len(messages[i].tool_calls)
         IN  n[Len(messages)]

TotalToolCalls ==
    LET total[S \in SUBSET Runs] ==
            IF S = {} THEN 0
            ELSE LET r == CHOOSE q \in S : TRUE
                 IN  ToolCallsRequested(r) + total[S \ {r}]
    IN  total[Runs]

TheSubmission == [json |-> "object", email |-> "e1", secret |-> "s1", url |-> "u1"]

\* Spec, the general specification: a deployed server that is sent one
\* valid submission after another, concurrent runs, a clock that advances
\* freely; the reasoner answers with a text and asks for nothing or for a
\* submit, which succeeds or meets a network error.
SpecTexts == {"Let me look at the page."}
SpecToolCalls == {<<>>, <<"post_request">>}
SpecFaults == {"none", "network_error"}

Init == InitIn(DeployedEnvs)

Next ==
    \/ \E r \in Runs : solve_quiz(TheSubmission, r)
    \/ \E r \in Runs : run_agent(r)
    \/ \E r \in Runs : call_model(r)
    \/ \E r \in Runs : invoke_enter(r)
    \/ \E r \in Runs : invoke_wake(r)
    \/ \E r \in Runs : Len(callTimes) < MaxLLMCalls /\ invoke_call(r)
    \/ \E r \in Runs, text \in SpecTexts, names \in SpecToolCalls :
          /\ TotalToolCalls + Len(names) <= MaxToolCalls
          /\ llm_returns(r, text, names)
    \/ \E r \in Runs : llm_raises(r)
    \/ \E r \in Runs : tool_node(r)
    \/ \E r \in Runs, fault \in SpecFaults :
          tool_finishes(r, 1, fault, FALSE)
    \/ \E r \in Runs : tool_node_return(r)
    \/ \E r \in Runs : run_agent_returns(r)
    \/ \E r \in Runs : run_agent_except(r)
    \/ now < ProcessStart + MaxTicks * TickStep /\ Tick

Spec == Init /\ [][Next]_vars

\* SpecFrontDoor: every configuration and every body at the front door; the
\* runs it starts make one reasoning call, answered by a text or an error.
InitFrontDoor == InitIn(Envs)

NextFrontDoor ==
    \/ \E body \in Bodies, r \in Runs : solve_quiz(body, r)
    \/ \E r \in Runs : run_agent(r)
    \/ \E r \in Runs : call_model(r)
    \/ \E r \in Runs : invoke_enter(r)
    \/ \E r \in Runs : invoke_wake(r)
    \/ \E r \in Runs : invoke_call(r)
    \/ \E r \in Runs : llm_returns(r, "FINISHED", <<>>)
    \/ \E r \in Runs : llm_raises(r)
    \/ \E r \in Runs : run_agent_returns(r)
    \/ \E r \in Runs : run_agent_except(r)
    \/ TickWhileAsleep

SpecFrontDoor == InitFrontDoor /\ [][NextFrontDoor]_vars

\* SpecTools: one run whose reasoner first asks for any one or two of the
\* five capabilities, then for a submit or for a code execution and a
\* submit, up to MaxRunToolCalls invocations in the run, or answers with a
\* text alone; each invocation meets any fault, and time passes only while
\* the run sleeps in the gateway.
TheRun == "run1"

OneOrTwoTools ==
    {<<a>> : a \in ToolNames} \cup {<<a, b>> : a \in ToolNames, b \in ToolNames}

FollowUpToolCalls == {<<"post_request">>, <<"run_code", "post_request">>}

NextTools ==
    \/ solve_quiz(TheSubmission, TheRun)
    \/ run_agent(TheRun)
    \/ call_model(TheRun)
    \/ invoke_enter(TheRun)
    \/ invoke_wake(TheRun)
    \/ invoke_call(TheRun)
    \/ \E text \in AITexts : llm_returns(TheRun, text, <<>>)
    \/ \E names \in OneOrTwoTools :
          /\ ToolCallsRequested(TheRun) = 0
          /\ llm_returns(TheRun, "Let me look at the page.", names)
    \/ \E names \in FollowUpToolCalls :
          /\ ToolCallsRequested(TheRun) > 0
          /\ ToolCallsRequested(TheRun) + Len(names) <= MaxRunToolCalls
          /\ llm_returns(TheRun, "Let me look at the page.", names)
    \/ llm_raises(TheRun)
    \/ tool_node(TheRun)
    \/ \E i \in 1..2, fault \in Faults, next_url \in BOOLEAN :
          tool_finishes(TheRun, i, fault, next_url)
    \/ tool_node_return(TheRun)
    \/ run_agent_returns(TheRun)
    \/ run_agent_except(TheRun)
    \/ TickWhileAsleep

SpecTools == Init /\ [][NextTools]_vars

\* SpecCeiling: one run whose reasoner asks for a page in every answer, or
\* stops; every invocation succeeds, and time passes only while the run
\* sleeps in the gateway.
NextCeiling ==
    \/ solve_quiz(TheSubmission, TheRun)
    \/ run_agent(TheRun)
    \/ call_model(TheRun)
    \/ invoke_enter(TheRun)
    \/ invoke_wake(TheRun)
    \/ invoke_call(TheRun)
    \/ \E names \in {<<>>, <<"get_rendered_html">>} :
          llm_returns(TheRun, "Let me look at the page.", names)
    \/ llm_raises(TheRun)
    \/ tool_node(TheRun)
    \/ tool_finishes(TheRun, 1, "none", FALSE)
    \/ tool_node_return(TheRun)
    \/ graph_recursion_error(TheRun)
    \/ run_agent_returns(TheRun)
    \/ run_agent_except(TheRun)
    \/ TickWhileAsleep

SpecCeiling == Init /\ [][NextCeiling]_vars

\* SpecGateway: two runs under contention for the gateway, with the
\* scheduling the code relies on.  Each run's reasoner asks for a page once
\* at most and then answers with a text; the service answers every call, by
\* a response or by an error.  Fairness: a worker thread that can take its
\* next step inside invoke() takes it, time passes while a run sleeps, and
\* the service call of agent.py:128 ends.
ServiceAnswers(r) ==
    \/ llm_returns(r, "FINISHED", <<>>)
    \/ /\ ToolCallsRequested(r) = 0
       /\ llm_returns(r, "Let me look at the page.", <<"get_rendered_html">>)
    \/ llm_raises(r)

NextGateway ==
    \/ \E r \in Runs : solve_quiz(TheSubmission, r)
    \/ \E r \in Runs : run_agent(r)
    \/ \E r \in Runs : call_model(r)
    \/ \E r \in Runs : invoke_enter(r)
    \/ \E r \in Runs : invoke_wake(r)
    \/ \E r \in Runs : invoke_call(r)
    \/ \E r \in Runs : ServiceAnswers(r)
    \/ \E r \in Runs : tool_node(r)
    \/ \E r \in Runs : tool_finishes(r, 1, "none", FALSE)
    \/ \E r \in Runs : tool_node_return(r)
    \/ \E r \in Runs : run_agent_returns(r)
    \/ \E r \in Runs : run_agent_except(r)
    \/ TickWhileAsleep

FairGateway ==
    /\ \A r \in Runs : WF_vars(invoke_enter(r))
    /\ \A r \in Runs : WF_vars(invoke_wake(r))
    /\ \A r \in Runs : WF_vars(invoke_call(r))
    /\ \A r \in Runs : WF_vars(ServiceAnswers(r))
    /\ WF_vars(TickWhileAsleep)

SpecGateway == Init /\ [][NextGateway]_vars /\ FairGateway

\* SpecRouting: one run whose reasoner answers with any of the texts, with
\* or without a completion phrase, and asks for nothing, for a page, or for
\* a code execution and a submit, up to MaxRunToolCalls invocations in the
\* run; every invocation succeeds.
RoutingToolCalls ==
    {<<>>, <<"get_rendered_html">>, <<"run_code", "post_request">>}

NextRouting ==
    \/ solve_quiz(TheSubmission, TheRun)
    \/ run_agent(TheRun)
    \/ call_model(TheRun)
    \/ invoke_enter(TheRun)
    \/ invoke_wake(TheRun)
    \/ invoke_call(TheRun)
    \/ \E text \in AITexts, names \in RoutingToolCalls :
          /\ ToolCallsRequested(TheRun) + Len(names) <= MaxRunToolCalls
          /\ llm_returns(TheRun, text, names)
    \/ llm_raises(TheRun)
    \/ tool_node(TheRun)
    \/ \E i \in 1..2 : tool_finishes(TheRun, i, "none", FALSE)
    \/ tool_node_return(TheRun)
    \/ run_agent_returns(TheRun)
    \/ run_agent_except(TheRun)
    \/ TickWhileAsleep

SpecRouting == Init /\ [][NextRouting]_vars

\* SpecCapabilities: the capabilities that write files or start
\* subprocesses, invoked on their own up to MaxInvocations times, with every
\* argument and against every fault.  The URLs end in a file name, in "/"
\* and in ".."; the file names are absent, empty, plain, with a directory,
\* with "..", "..", absolute, and ending in "/".
FileUrls ==
    {[id |-> "b1", path |-> <<"", "files", "data.csv">>],
     [id |-> "b2", path |-> <<"", "">>],
     [id |-> "b3", path |-> <<"", "files", "..">>]}

Filenames ==
    {NoFilename, <<"">>, <<"data.csv">>, <<"dir", "data.csv">>, <<"..", "secret">>,
     <<"..">>, <<"", "etc", "passwd">>, <<"dir", "">>}

PackageLists == {<<>>, <<"pandas">>}

NextCapabilities ==
    /\ InvocationsMade < MaxInvocations
    /\ \/ \E url \in FileUrls, filename \in Filenames, fault \in Faults :
             invoke_download_file(url, filename, fault)
       \/ \E fault \in Faults : invoke_run_code(fault)
       \/ \E packages \in PackageLists, fault \in Faults :
             invoke_add_dependencies(packages, fault)

SpecCapabilities == Init /\ [][NextCapabilities]_vars

\* SpecSupervisor: one run that ends in each of the ways a graph run can end.
\* The reasoner answers with a text alone, or asks for a page, or, as its
\* first request, for a submit; a submit succeeds or meets a network error,
\* every other invocation succeeds; the service call may raise, and the run
\* may go on to the recursion limit.
SupervisorFaults == {"none", "network_error"}

NextSupervisor ==
    \/ solve_quiz(TheSubmission, TheRun)
    \/ run_agent(TheRun)
    \/ call_model(TheRun)
    \/ invoke_enter(TheRun)
    \/ invoke_wake(TheRun)
    \/ invoke_call(TheRun)
    \/ \E text \in AITexts : llm_returns(TheRun, text, <<>>)
    \/ llm_returns(TheRun, "Let me look at the page.", <<"get_rendered_html">>)
    \/ /\ pc[TheRun] = "await"
       /\ Len(state[TheRun].messages) = 1
       /\ llm_returns(TheRun, "Let me look at the page.", <<"post_request">>)
    \/ llm_raises(TheRun)
    \/ tool_node(TheRun)
    \/ \E fault \in SupervisorFaults :
          /\ pc[TheRun] = "acting"
          /\ fault = "none" \/ acting[TheRun].calls[1].name = "post_request"
          /\ tool_finishes(TheRun, 1, fault, FALSE)
    \/ tool_node_return(TheRun)
    \/ graph_recursion_error(TheRun)
    \/ run_agent_returns(TheRun)
    \/ run_agent_except(TheRun)
    \/ TickWhileAsleep

SpecSupervisor == Init /\ [][NextSupervisor]_vars

\* ------------------------------------------------------------ properties

Started(r) == state[r] # NoState

\* The reasoning calls run r has issued.
CallsOf(r) == Cardinality({k \in 1..Len(callTimes) : callTimes[k].run = r})

LastOf(seq) == seq[Len(seq)]

IsPrefix(s, t) == Len(s) <= Len(t) /\ \A k \in 1..Len(s) : s[k] = t[k]

\* The tool calls the reasoner messages of a conversation request, in order.
Requested(messages) ==
    LET f[i \in 0..Len(messages)] ==
            IF i = 0 THEN <<>>
            ELSE IF messages[i].type = "ai"
                 THEN f[i - 1] \o messages[i].tool_calls
                 ELSE f[i - 1]
    IN  f[Len(messages)]

\* The tool calls the tool messages of a conversation answer, in order.
Answered(messages) ==
    LET f[i \in 0..Len(messages)] ==
            IF i = 0 THEN <<>>
            ELSE IF messages[i].type = "tool"
                 THEN Append(f[i - 1], [name |-> messages[i].name,
                                        id |-> messages[i].tool_call_id])
                 ELSE f[i - 1]
    IN  f[Len(messages)]

\* The submit results of a conversation that carry a next URL.
Chained(messages) ==
    Cardinality({i \in 1..Len(messages) :
        /\ messages[i].type = "tool"
        /\ messages[i].name = "post_request"
        /\ messages[i].content.next_url})

ToolExceptions == {"NameError: name 'asyncio' is not defined"}

\* C1: no two reasoning calls, of whatever runs, are issued less than
\* min_interval apart.
C1_CallsAtLeastMinIntervalApart ==
    \A i \in 1..Len(callTimes), j \in 1..Len(callTimes) :
        i < j => callTimes[j].at - callTimes[i].at >= min_interval

\* C2: a run never starts more than recursion_limit supersteps, so it makes
\* at most recursion_limit / 2 reasoning calls; at the ceiling the graph can
\* start no further node and raises, and the run that ended so has returned
\* a report or is about to.
C2_CeilingForcesTerminal ==
    \A r \in Runs :
        /\ step[r] <= recursion_limit
        /\ 2 * CallsOf(r) <= recursion_limit
        /\ (pc[r] \in {"agent", "tools"} /\ step[r] = recursion_limit) =>
               /\ ~ENABLED call_model(r)
               /\ ~ENABLED tool_node(r)
               /\ ENABLED graph_recursion_error(r)
        /\ (pc[r] = "raised" /\ exc[r] = "GraphRecursionError") =>
               ENABLED run_agent_except(r)

\* C2: the reasoner asked for a tool in each of its answers, none of them
\* carried a completion phrase, the ceiling was hit and run_agent returned.
C2_Witness ==
    /\ pc[TheRun] = "returned"
    /\ step[TheRun] = recursion_limit
    /\ exc[TheRun] = "GraphRecursionError"
    /\ report[TheRun] # NoReport
    /\ \A i \in 1..Len(state[TheRun].messages) :
           state[TheRun].messages[i].type = "ai" =>
               /\ state[TheRun].messages[i].tool_calls # <<>>
               /\ lower(state[TheRun].messages[i].content.text) = "let me look at the page."

C4_ResultsMatchRequests ==
    \A r \in Runs : Started(r) =>
        LET messages == state[r].messages IN
        /\ IsPrefix(Answered(messages), Requested(messages))
        /\ pc[r] \in {"agent", "invoke", "sleep", "call", "await", "end"} =>
               Answered(messages) = Requested(messages)

\* C4: after two round trips, the second with two invocations of which the
\* second ended first.
C4_Witness ==
    \E r \in Runs :
        /\ pc[r] = "agent"
        /\ acting[r].done = <<2, 1>>
        /\ Len(Requested(state[r].messages)) = 3
        /\ Len(Answered(state[r].messages)) = 3

\* C5: no capability raises: no exception of a tool propagates out of a
\* run's graph, and none had to be handled by the ToolNode.
C5_CapabilitiesNeverRaise ==
    \A r \in Runs :
        /\ exc[r] \notin ToolExceptions
        /\ \A i \in 1..Len(acting[r].results) :
               acting[r].results[i] # Pending =>
                   acting[r].results[i].text \notin
                       {"Error: " \o e : e \in ToolExceptions}

\* C6: once the service call of a run has raised, the run issues no further
\* reasoning call, starts no further node and no tool invocation and its
\* conversation stays as it is; the exception goes straight to run_agent,
\* which returns success = False with the error and the elapsed time.
C6_GatewayErrorEndsRun ==
    [][\A r \in Runs :
        /\ (pc[r] = "await" /\ pc'[r] # "await" /\ exc'[r] = "reasoning service error")
               => pc'[r] = "raised"
        /\ exc[r] = "reasoning service error" =>
               /\ CallsOf(r)' = CallsOf(r)
               /\ step'[r] = step[r]
               /\ acting'[r] = acting[r]
               /\ state'[r] = state[r]
               /\ pc'[r] \in {"raised", "returned"}
               /\ (pc[r] = "raised" /\ pc'[r] = "returned") =>
                      report'[r] = [success |-> FALSE,
                                    error |-> "reasoning service error",
                                    elapsed_time |-> now - state[r].start_time]
               /\ pc[r] = "returned" => report'[r] = report[r]
      ]_vars

\* C6: the second reasoning call of a run raised, after a tool round, and
\* run_agent has returned the failure.
C6_Witness ==
    \E r \in Runs :
        /\ pc[r] = "returned"
        /\ exc[r] = "reasoning service error"
        /\ CallsOf(r) = 2
        /\ Len(Answered(state[r].messages)) = 1
        /\ ~report[r].success
        /\ report[r].elapsed_time >= 0

\* C7: the quiz number of every context message, and the quiz_count of the
\* report of a completed run, is the initial one plus the number of submit
\* results with a next URL obtained so far.
C7_QuizCountFollowsChaining ==
    \A r \in Runs : Started(r) =>
        /\ request[r] # <<>> =>
               LastOf(request[r]).content.quiz_count =
                   initial_quiz_count + Chained(request[r])
        /\ (report[r] # NoReport /\ report[r].success) =>
               report[r].quiz_count =
                   initial_quiz_count + Chained(state[r].messages)

\* C8: a run becomes terminal only by a reasoner message without tool
\* calls, by the ceiling or by an exception, whatever the time; and with or
\* without time left, a run due for a Reasoning step below the ceiling can
\* take it and goes on to call the gateway.
C8_DeadlineIsAdvisory ==
    /\ [][\A r \in Runs :
            (pc[r] \notin {"end", "raised", "returned"} /\ pc'[r] \in {"end", "raised"}) =>
                \/ /\ pc'[r] = "end"
                   /\ LastOf(state'[r].messages).type = "ai"
                   /\ LastOf(state'[r].messages).tool_calls = <<>>
                \/ /\ pc'[r] = "raised"
                   /\ exc'[r] = "GraphRecursionError"
                   /\ step[r] >= recursion_limit
                \/ /\ pc'[r] = "raised"
                   /\ pc[r] = "await"
                   /\ exc'[r] = "reasoning service error"
                \/ /\ pc'[r] = "raised"
                   /\ pc[r] = "acting"
                   /\ exc'[r] \in ToolExceptions
         ]_vars
    /\ [](\A r \in Runs :
            /\ (pc[r] = "agent" /\ step[r] < recursion_limit) => ENABLED call_model(r)
            /\ pc[r] = "invoke" => ENABLED invoke_enter(r)
            /\ pc[r] = "call" => ENABLED invoke_call(r))

\* C8: a reasoning call is in flight whose context message shows no time
\* left.
C8_Witness ==
    \E r \in Runs :
        /\ pc[r] = "await"
        /\ LastOf(request[r]).content.time_remaining < 0
        /\ now > state[r].start_time + state[r].max_time

\* What belongs to one run.
RunView(r) ==
    <<pc[r], args[r], state[r], step[r], request[r], wake_at[r], acting[r],
      exc[r], report[r]>>

C10_RunOnlyWithTheSecret ==
    /\ [](\A r \in Runs : pc[r] # "idle" =>
            /\ env.SECRET \notin {None, ""}
            /\ args[r].secret = env.SECRET)
    /\ []((http # NoHttp /\ http.body \in Submissions) =>
            http.status = IF env.SECRET \in {None, ""} THEN 500
                          ELSE IF http.body.secret # env.SECRET THEN 403
                          ELSE 200)
    /\ [][(\E r \in Runs : pc[r] = "idle" /\ pc'[r] # "idle") =>
            /\ http'.status = 200
            /\ http'.body \in Submissions
            /\ http'.body.secret = env.SECRET
         ]_vars

\* C10: a run was started for a submission whose email is not the
\* configured EMAIL.
C10_Witness ==
    \E r \in Runs :
        /\ pc[r] # "idle"
        /\ env.EMAIL = "e1"
        /\ args[r].email = "e2"
        /\ http.status = 200

\* A body that passes the checks of solve_quiz under the configuration.
Validated(body) ==
    /\ body \in Submissions
    /\ env.SECRET \notin {None, ""}
    /\ body.secret = env.SECRET

\* C11: every validated submission is answered 200; the step that answers
\* it leaves the run it schedules not yet started, and changes nothing of
\* any other run; no step of a run changes the answer given; and wherever
\* the other runs are (in flight, failed, completed) a validated submission
\* can be answered as long as a run is free.
C11_AcceptedWithoutWaiting ==
    /\ []((http # NoHttp /\ Validated(http.body)) => http.status = 200)
    /\ [][\A r \in Runs : (pc[r] = "idle" /\ pc'[r] # "idle") =>
            /\ http'.status = 200
            /\ pc'[r] = "scheduled"
            /\ state'[r] = NoState
            /\ report'[r] = NoReport
            /\ \A q \in Runs \ {r} : RunView(q)' = RunView(q)
         ]_vars
    /\ [][(\E r \in Runs : pc[r] # "idle" /\ RunView(r)' # RunView(r)) =>
            http' = http
         ]_vars
    /\ [](\A r \in Runs, body \in Bodies :
            (pc[r] = "idle" /\ Validated(body)) => ENABLED solve_quiz(body, r))

\* C11: a validated submission has just been answered 200 and its run is
\* scheduled and not started, while an earlier run has failed.
C11_Witness ==
    \E r \in Runs, q \in Runs :
        /\ pc[r] = "scheduled"
        /\ state[r] = NoState
        /\ http.status = 200
        /\ Validated(http.body)
        /\ pc[q] = "returned"
        /\ ~report[q].success

\* C12: every body that is no acceptable submission (text that is no JSON,
\* JSON that is an array, a string, a number or null, an object that does
\* not fit the request model) is answered 400.
C12_UnacceptableBodyIs400 ==
    (http # NoHttp /\ http.body \in NotSubmissions) => http.status = 400

\* The results post_request returns by its handlers: a response, or an error
\* description with status_code -1 (send_request.py:47-50, 93-96, 101-104).
StructuredSubmitResults ==
    {"status_code 200", "status_code 4xx",
     "status_code -1: Failed to serialize payload",
     "status_code -1: Request timed out after 30 seconds",
     "status_code -1: Error sending POST request"}

\* C13: every invocation of post_request that has ended, whatever it met
\* (a payload that cannot be serialized, a timeout, a network error),
\* returned a structured result, and no exception of it ended the run.
C13_SubmitFailureIsStructured ==
    \A r \in Runs :
        /\ \A i \in 1..Len(acting[r].calls) :
               (acting[r].calls[i].name = "post_request"
                    /\ acting[r].results[i] # Pending) =>
                   /\ ~acting[r].results[i].raised
                   /\ acting[r].results[i].text \in StructuredSubmitResults
        /\ (pc[r] \in {"raised", "returned"} /\ exc[r] # None) =>
               exc[r] \in {"reasoning service error", "GraphRecursionError"}

\* C14: an execution that runs into the 60-second ceiling ends its
\* invocation with a returned result of exit_code -1 and a stderr that is
\* not empty: for every pending invocation of run_code the timeout can
\* happen and has no other outcome, and every ended invocation of run_code
\* returned, with a diagnostic whenever its exit_code is -1.
C14_ExecutionTimeoutIsReturned ==
    \A r \in Runs : \A i \in 1..Len(acting[r].calls) :
        acting[r].calls[i].name = "run_code" =>
            IF acting[r].results[i] = Pending
            THEN /\ pc[r] = "acting" => ENABLED tool_finishes(r, i, "timeout", FALSE)
                 /\ ~ENABLED (/\ tool_finishes(r, i, "timeout", FALSE)
                               /\ \/ pc'[r] = "raised"
                                  \/ acting'[r].results[i].raised
                                  \/ "exit_code" \notin DOMAIN acting'[r].results[i]
                                  \/ acting'[r].results[i].exit_code # -1
                                  \/ acting'[r].results[i].stderr = "")
            ELSE /\ ~acting[r].results[i].raised
                 /\ "exit_code" \in DOMAIN acting[r].results[i]
                 /\ acting[r].results[i].exit_code = -1 =>
                        acting[r].results[i].stderr # ""

\* C14: an invocation of run_code has ended by the timeout.
C14_Witness ==
    \E r \in Runs : \E i \in 1..Len(acting[r].calls) :
        /\ acting[r].calls[i].name = "run_code"
        /\ acting[r].results[i] # Pending
        /\ acting[r].results[i] = run_code("timeout")
        /\ acting[r].results[i].exit_code = -1
        /\ acting[r].results[i].stderr = "Error executing code: local variable 'json'"

\* The reasoner messages of run r.
ResponsesOf(r) ==
    IF state[r] = NoState THEN 0
    ELSE Cardinality({i \in 1..Len(state[r].messages) :
                         state[r].messages[i].type = "ai"})

\* C15: a run sleeping in the gateway wakes within min_interval; every run
\* that enters invoke() has its reasoning call issued, and the call gets the
\* answer of the service, whatever the other run does.
C15_GatewayIsLive ==
    /\ [](\A r \in Runs : pc[r] = "sleep" =>
            /\ wake_at[r] - now <= min_interval
            /\ now < wake_at[r] => ENABLED TickWhileAsleep
            /\ now >= wake_at[r] => ENABLED invoke_wake(r))
    /\ \A r \in Runs : (pc[r] = "invoke") ~> (pc[r] = "await")
    /\ \A r \in Runs : (pc[r] = "invoke") ~> (pc[r] \in {"tools", "end", "raised"})

\* C15: two runs started in the same min_interval window, the call of the
\* second was held back behind the call of the first, and each of them has
\* got a response.
C15_Witness ==
    \E r \in Runs, q \in Runs :
        /\ r # q
        /\ Started(r) /\ Started(q)
        /\ state[q].start_time - state[r].start_time < min_interval
        /\ state[r].start_time - state[q].start_time < min_interval
        /\ Len(callTimes) >= 2
        /\ callTimes[1].run = r
        /\ callTimes[2].run = q
        /\ callTimes[2].at > callTimes[1].at
        /\ ResponsesOf(r) >= 1
        /\ ResponsesOf(q) >= 1

\* C16, as stated: the timestamp is recorded after the reasoning call
\* returns, so the interval runs from the completion of a call: when a call
\* ends, the timestamp is the time of its end, and a call entering the
\* gateway at that moment has the whole of min_interval to wait.
C16_IntervalFromCompletion ==
    [][\A r \in Runs :
          (pc[r] = "await" /\ pc'[r] # "await") =>
              /\ last_call_time' = now'
              /\ wait_time(now', last_call_time') = min_interval
      ]_vars

\* C16, amended: the interval runs from the start of the previous call.  The
\* timestamp is written in the step that issues a call, as the time of that
\* step, and the end of a call leaves it alone; so the calls of one run are
\* issued at least min_interval apart, however long a call took, and a call
\* that took min_interval or longer is not waited for at all.
C16_IntervalFromCallStart ==
    /\ [][\A r \in Runs :
            /\ (pc[r] = "call" /\ pc'[r] = "await") => last_call_time' = now
            /\ (pc[r] = "await" /\ pc'[r] # "await") =>
                   last_call_time' = last_call_time
         ]_vars
    /\ [](\A i \in 1..Len(callTimes), j \in 1..Len(callTimes) :
            (i < j /\ callTimes[i].run = callTimes[j].run) =>
                callTimes[j].at - callTimes[i].at >= min_interval)
    /\ [](\A r \in Runs :
            (pc[r] = "invoke" /\ now - last_call_time >= min_interval) =>
                ENABLED (invoke_enter(r) /\ pc'[r] = "call"))

\* C16: the second call of a run is in flight, issued exactly min_interval
\* after the first was, with the first call and a tool round in between:
\* the time they took counted towards the interval.
C16_Witness ==
    \E r \in Runs, i \in 1..Len(callTimes), j \in 1..Len(callTimes) :
        /\ i < j
        /\ pc[r] = "await"
        /\ callTimes[i].run = r
        /\ callTimes[j].run = r
        /\ callTimes[j].at - callTimes[i].at = min_interval
        /\ last_call_time = callTimes[j].at
        /\ Len(Answered(state[r].messages)) = 1

\* Where a run is inside a Reasoning step.
Reasoning == {"invoke", "sleep", "call", "await"}

\* The last n messages of a conversation.
LastMessages(messages, n) ==
    [k \in 1..n |-> messages[Len(messages) - n + k]]

\* C17: Reasoning steps are the odd supersteps of a run and Acting steps the
\* even ones.  An Acting step starts only right after a reasoner message
\* that requests tool invocations, and for these; a Reasoning step starts
\* only at the start of the run or once every invocation of the Acting
\* step before it has ended and the tool messages are the last messages of
\* the conversation; and while a run is in a Reasoning step none of its
\* invocations is pending.
C17_StepsAlternate ==
    /\ [](\A r \in Runs :
            /\ pc[r] \in Reasoning \cup {"tools", "end"} => step[r] % 2 = 1
            /\ pc[r] \in {"acting", "agent"} => step[r] % 2 = 0
            /\ pc[r] \in Reasoning \cup {"agent", "tools", "end"} =>
                   \A i \in 1..Len(acting[r].results) :
                       acting[r].results[i] # Pending
            /\ pc[r] = "acting" =>
                   /\ acting[r].calls # <<>>
                   /\ acting[r].calls = LastOf(state[r].messages).tool_calls)
    /\ [][\A r \in Runs :
            /\ (pc[r] # "acting" /\ pc'[r] = "acting") =>
                   /\ pc[r] = "tools"
                   /\ step'[r] = step[r] + 1
                   /\ LastOf(state[r].messages).type = "ai"
                   /\ LastOf(state[r].messages).tool_calls # <<>>
            /\ (pc[r] \notin Reasoning /\ pc'[r] \in Reasoning) =>
                   /\ pc[r] = "agent"
                   /\ step'[r] = step[r] + 1
                   /\ \/ step[r] = 0 /\ Len(state[r].messages) = 1
                      \/ /\ step[r] > 0
                         /\ Len(acting[r].done) = Len(acting[r].calls)
                         /\ LastMessages(state[r].messages, Len(acting[r].calls)) =
                                tool_node_outputs(acting[r].calls,
                                                  acting[r].results,
                                                  acting[r].done)
            /\ (pc[r] = "acting" /\ pc'[r] # "acting") =>
                   pc'[r] \in {"agent", "raised"}
            /\ (pc[r] \in Reasoning /\ pc'[r] \notin Reasoning) =>
                   pc'[r] \in {"tools", "end", "raised"}
         ]_vars

\* C17: the gateway call of the second Reasoning step of a run is in flight,
\* after an Acting step of two invocations.
C17_Witness ==
    \E r \in Runs :
        /\ pc[r] = "await"
        /\ step[r] = 3
        /\ CallsOf(r) = 2
        /\ Len(acting[r].calls) = 2
        /\ Len(Answered(state[r].messages)) = 2

\* A text that carries one of the completion phrases.
HasCompletionSignal(text) ==
    \/ contains(lower(text), "quiz complete")
    \/ contains(lower(text), "no new url")
    \/ contains(lower(text), "finished")

ContextsIn(messages) ==
    Cardinality({i \in 1..Len(messages) :
        messages[i].type = "human" /\ messages[i].content.kind = "context"})

\* The Reasoning steps run r has started.
ReasoningSteps(r) == (step[r] + 1) \div 2

\* C19, as stated: every Reasoning step appends its context message and
\* its reasoner message to the run's conversation: between steps the
\* conversation holds as many context messages as reasoner messages, and
\* the conversation handed to the gateway holds the context messages of
\* all the Reasoning steps started so far.
C19_ContextMessagesAccumulate ==
    \A r \in Runs : Started(r) =>
        /\ pc[r] \in {"agent", "tools", "acting", "end"} =>
               ContextsIn(state[r].messages) = ResponsesOf(r)
        /\ request[r] # <<>> =>
               ContextsIn(request[r]) = ReasoningSteps(r)

\* C19, amended: a Reasoning step hands the gateway the system message, the
\* run's conversation and one fresh context message, in this order, and
\* keeps neither the system nor the context message: the step appends the
\* one reasoner message and nothing else.  The run's conversation is the
\* initial human message followed by reasoner and tool messages only, and
\* every gateway call sees one context message, its own.
C19_ContextIsPerCall ==
    /\ [](\A r \in Runs : Started(r) =>
            /\ state[r].messages[1].type = "human"
            /\ state[r].messages[1].content.kind = "solve"
            /\ \A i \in 2..Len(state[r].messages) :
                   state[r].messages[i].type \in {"ai", "tool"}
            /\ ContextsIn(state[r].messages) = 0
            /\ request[r] # <<>> => ContextsIn(request[r]) = 1
            /\ pc[r] \in Reasoning =>
                   /\ request[r] = <<SystemMessage(SYSTEM_PROMPT)>>
                                        \o state[r].messages
                                        \o <<LastOf(request[r])>>
                   /\ LastOf(request[r]).content.kind = "context"
                   /\ LastOf(request[r]).content.elapsed_time <=
                          now - state[r].start_time)
    /\ [][\A r \in Runs : Started(r) =>
            /\ (pc[r] = "agent" \/ pc[r] \in Reasoning) /\ pc'[r] \in Reasoning =>
                   state'[r] = state[r]
            /\ (pc[r] = "await" /\ pc'[r] \in {"tools", "end"}) =>
                   /\ Len(state'[r].messages) = Len(state[r].messages) + 1
                   /\ IsPrefix(state[r].messages, state'[r].messages)
                   /\ LastOf(state'[r].messages).type = "ai"
         ]_vars

\* C19: the second gateway call of a run is in flight: the conversation it
\* was handed has one context message, and the run's conversation has the
\* first reasoner message and no context message.
C19_Witness ==
    \E r \in Runs :
        /\ pc[r] = "await"
        /\ CallsOf(r) = 2
        /\ ReasoningSteps(r) = 2
        /\ ResponsesOf(r) = 1
        /\ ContextsIn(request[r]) = 1
        /\ ContextsIn(state[r].messages) = 0

\* The system messages of a conversation.
SystemsIn(messages) ==
    Cardinality({i \in 1..Len(messages) : messages[i].type = "system"})

\* Every tool message of a conversation has, before it, the reasoner message
\* that requested it, with tool messages only in between.
ToolResultsFollowRequests(messages) ==
    \A i \in 1..Len(messages) :
        messages[i].type = "tool" =>
            \E j \in 1..i - 1 :
                /\ messages[j].type = "ai"
                /\ \E k \in 1..Len(messages[j].tool_calls) :
                       /\ messages[j].tool_calls[k].id = messages[i].tool_call_id
                       /\ messages[j].tool_calls[k].name = messages[i].name
                /\ \A m \in j + 1..i : messages[m].type = "tool"

\* C20: every conversation handed to the gateway has one system message,
\* which is its first message, at the first Reasoning step and at every
\* later one; and in it, as in the run's own conversation, every tool
\* message follows the reasoner message that requested it with tool
\* messages only in between.
C20_OneSystemFirstToolsFollow ==
    \A r \in Runs :
        /\ request[r] # <<>> =>
               /\ request[r][1].type = "system"
               /\ request[r][1].content = SYSTEM_PROMPT
               /\ SystemsIn(request[r]) = 1
               /\ ToolResultsFollowRequests(request[r])
        /\ pc[r] \in Reasoning => request[r] # <<>>
        /\ Started(r) => ToolResultsFollowRequests(state[r].messages)

\* C20: the third gateway call of a run is in flight, and the conversation
\* it was handed has the results of two Acting steps, one of them of two
\* invocations.
C20_Witness ==
    \E r \in Runs :
        /\ pc[r] = "await"
        /\ CallsOf(r) = 3
        /\ Len(Answered(request[r])) = 3
        /\ SystemsIn(request[r]) = 1
        /\ ResponsesOf(r) = 2

\* C21: every step leaves the conversation of a run as it was or extends it:
\* the conversation before the step is a prefix of the one after it, a
\* Reasoning step adds one message and an Acting step one per invocation;
\* and the first message is the human message that names the URL the run
\* was started for.
C21_ConversationIsAppendOnly ==
    /\ [][\A r \in Runs : Started(r) =>
            /\ Started(r)'
            /\ IsPrefix(state[r].messages, state'[r].messages)
            /\ (pc[r] = "await" /\ pc'[r] \in {"tools", "end"}) =>
                   Len(state'[r].messages) = Len(state[r].messages) + 1
            /\ (pc[r] = "acting" /\ pc'[r] = "agent") =>
                   Len(state'[r].messages) =
                       Len(state[r].messages) + Len(acting[r].calls)
         ]_vars
    /\ [](\A r \in Runs : Started(r) =>
            /\ Len(state[r].messages) >= 1
            /\ state[r].messages[1] =
                   HumanMessage([kind |-> "solve", url |-> args[r].url]))

\* C21: a run has gone through two Reasoning and two Acting steps: its
\* conversation has the human message, two reasoner messages and the tool
\* messages of three invocations.
C21_Witness ==
    \E r \in Runs :
        /\ pc[r] = "agent"
        /\ step[r] = 4
        /\ Len(state[r].messages) = 6
        /\ ResponsesOf(r) = 2
        /\ Len(Answered(state[r].messages)) = 3

\* C22: an execution that timed out returned an empty stdout, the stderr
\* "Code execution timed out after 60 seconds" and exit_code -1, with its
\* subprocess killed and gone; and whatever an execution met, its temporary
\* code file is gone when it returns.
C22_ExecutionTimeoutResult ==
    (invocation # NoInvocation /\ invocation.tool = "run_code") =>
        /\ ~invocation.result.raised
        /\ world.temp_files = invocation.before.temp_files
        /\ invocation.fault = "timeout" =>
               /\ "python" \notin world.subprocesses
               /\ invocation.result.stdout = ""
               /\ invocation.result.stderr =
                      "Code execution timed out after 60 seconds"
               /\ invocation.result.exit_code = -1

\* A file that lies directly in LLMFiles.
DirectChildOfLLMFiles(path) ==
    /\ Len(path) = 2
    /\ path[1] = "LLMFiles"
    /\ path[2] \notin {"", ".", ".."}

\* C23: a download answered by a status other than 200 returned the error
\* string with the status, and left every file as it was, a file of the
\* same name included; and a download that returned a path returned the
\* path of a file that holds the whole body of its URL.
C23_FailedDownloadWritesNothing ==
    (invocation # NoInvocation /\ invocation.tool = "download_file") =>
        /\ ~invocation.result.raised
        /\ invocation.fault = "bad_status" =>
               /\ ~invocation.result.ok
               /\ invocation.result.text = "Error: Failed to download: HTTP status"
               /\ world.files = invocation.before.files
        /\ invocation.result.ok =>
               /\ invocation.result.text = path_text(invocation.filepath)
               /\ [path |-> invocation.filepath, from |-> invocation.url.id,
                    whole |-> TRUE] \in world.files
        /\ ~invocation.result.ok =>
               invocation.result.text \in
                   {"Error: Failed to download: HTTP status",
                    "Error: Error downloading file"}

\* C23: a download was answered 404 while a file of its name, whole, was in
\* LLMFiles from an earlier download, and the file is still there.
C23_Witness ==
    /\ invocation # NoInvocation
    /\ invocation.tool = "download_file"
    /\ invocation.fault = "bad_status"
    /\ \E f \in invocation.before.files :
           /\ f.path = invocation.filepath
           /\ f.whole
           /\ f \in world.files

\* C24: every file written lies directly in LLMFiles, whatever the URL and
\* the filename; an invocation changes no file but the one of its own path;
\* and a download whose name is empty, "." or ".." returned an error and
\* wrote nothing.
C24_DownloadsStayInLLMFiles ==
    /\ \A f \in world.files : DirectChildOfLLMFiles(f.path)
    /\ (invocation # NoInvocation /\ invocation.tool = "download_file") =>
           /\ \A f \in world.files :
                  f \notin invocation.before.files => f.path = invocation.filepath
           /\ \A f \in invocation.before.files :
                  f \notin world.files => f.path = invocation.filepath
           /\ ~DirectChildOfLLMFiles(invocation.filepath) =>
                  /\ ~invocation.result.ok
                  /\ world.files = invocation.before.files

\* C24: a download with the filename "../secret" succeeded and wrote
\* LLMFiles/secret, and one with the filename ".." met no fault and
\* returned an error.
C24_Witness ==
    /\ invocation # NoInvocation
    /\ invocation.tool = "download_file"
    /\ invocation.filename = <<"..">>
    /\ invocation.fault = "none"
    /\ ~invocation.result.ok
    /\ \E f \in world.files : f.path = <<"LLMFiles", "secret">>

\* C27: when run_code or add_dependencies has returned because of its
\* timeout, the subprocess it started runs no more.
C27_NoSubprocessLeftBehind ==
    (invocation # NoInvocation /\ invocation.fault = "timeout") =>
        /\ invocation.tool = "run_code" => "python" \notin world.subprocesses
        /\ invocation.tool = "add_dependencies" => "pip" \notin world.subprocesses


\* The loop of run r ended by a reasoner message without tool calls.
EndedByReasoner(r) ==
    LET last == LastOf(state[r].messages)
    IN  last.type = "ai" /\ last.tool_calls = <<>>

\* The report run_agent returns for run r, as a state predicate.
ReportOf(r) ==
    IF EndedByReasoner(r)
    THEN /\ DOMAIN report[r] = {"success", "elapsed_time", "quiz_count"}
         /\ report[r].success
         /\ report[r].elapsed_time \in 0..(now - state[r].start_time)
         /\ report[r].quiz_count = state[r].quiz_count
         /\ exc[r] = None
    ELSE /\ DOMAIN report[r] = {"success", "error", "elapsed_time"}
         /\ ~report[r].success
         /\ report[r].elapsed_time \in 0..(now - state[r].start_time)
         /\ exc[r] # None
         /\ report[r].error = exc[r]

\* C25: run_agent never raises and returns exactly one report.  A graph run
\* that has ended, by its last node or by an exception of the gateway, of a
\* tool or of the recursion limit, is followed by the return of run_agent; a
\* run has a report exactly when run_agent has returned, and the report never
\* changes afterwards; it has success = True with elapsed_time and quiz_count
\* when the loop ended by a reasoner message without tool calls, and
\* success = False with error and elapsed_time otherwise, as it is for a run
\* stopped by the recursion limit.
C25_RunAgentAlwaysReports ==
    /\ [](\A r \in Runs :
            /\ pc[r] = "end" => EndedByReasoner(r) /\ ENABLED run_agent_returns(r)
            /\ pc[r] = "raised" => exc[r] # None /\ ENABLED run_agent_except(r)
            /\ report[r] # NoReport <=> pc[r] = "returned"
            /\ pc[r] = "returned" => ReportOf(r)
            /\ (pc[r] = "returned" /\ exc[r] = "GraphRecursionError") =>
                   /\ ~report[r].success
                   /\ report[r].error = "GraphRecursionError")
    /\ [][\A r \in Runs :
            /\ report[r] # NoReport => report'[r] = report[r]
            /\ pc[r] = "returned" => pc'[r] = "returned"
            /\ (pc[r] \in {"end", "raised"} /\ pc'[r] # pc[r]) =>
                   pc'[r] = "returned"
         ]_vars

\* C25: a run was stopped by the recursion limit after a submit and pages,
\* and run_agent has returned its failure with the error and the time.
C25_Witness ==
    /\ pc[TheRun] = "returned"
    /\ step[TheRun] = recursion_limit
    /\ ~EndedByReasoner(TheRun)
    /\ report[TheRun] = [success |-> FALSE,
                         error |-> "GraphRecursionError",
                         elapsed_time |-> now - state[TheRun].start_time]
    /\ \E i \in 1..Len(state[TheRun].messages) :
           /\ state[TheRun].messages[i].type = "tool"
           /\ state[TheRun].messages[i].name = "post_request"


\* The fields of a run's state other than its messages.
Frame(st) == [f \in DOMAIN st \ {"messages"} |-> st[f]]

====
